---- MODULE Spec2Model ----
(***************************************************************************)
(* claude-codemode: the code-generation, execution and result-extraction   *)
(* pipeline (CodeMode.run, ClaudeCodeRunner, ToolConverter).                *)
(*                                                                         *)
(* Python strings are modelled as sequences of tokens.  A token is a piece *)
(* of text the pipeline never looks inside: the marker literal, a brace, a *)
(* whitespace character, one JSON member, a word of free text.  Python     *)
(* values that are not strings (None, True, False, numbers, dicts) are     *)
(* one-token sequences whose token is written <...>.                       *)
(***************************************************************************)
EXTENDS Integers, Sequences, FiniteSets, TLC

VARIABLES
    config,        \* CodeModeConfig: timeout, preserve_workspace, workspace_dir given
    pc,            \* position of CodeMode.run
    dirState,      \* the workspace directory: "none", "exists", "deleted"
    runnerFile,    \* agentRunner.py in the workspace: "absent", "generated", "edited"
    primary,       \* what execute_with_claude_code returned: success, stdout, stderr
    fallback,      \* the direct execution's captured process result
    result,        \* the CodeModeResult built by extract_result
    returned,      \* what run handed to its caller
    launches,      \* the process launches made so far, in order
    fallbackEntered, \* _execute_runner_directly was called
    pending,       \* an exception is propagating out of run's try block
    rmtree,        \* what the recursive deletion did: "none", "ok", "failed"
    twinResult,    \* the result of the same run with the primary's other exit status
    tool,          \* ToolDefinition given to generate_function_code
    emitted,       \* the source lines generate_function_code returned
    program,       \* how main() of the generated program behaves when it is run
    runs,          \* concurrent calls of CodeMode.run, each with its position
    fs,            \* the file system the concurrent runs share: directory -> content
    agent,         \* the agent object given to extract_tools: its three attributes
    catalog        \* the ToolDefinitions extract_tools returned

vars == <<config, pc, dirState, runnerFile, primary, fallback, result, returned,
          launches, fallbackEntered, pending, rmtree, twinResult, tool, emitted, program, runs, fs,
          agent, catalog>>

runVars == <<config, pc, dirState, runnerFile, primary, fallback, result, returned,
             launches, fallbackEntered, pending, rmtree, twinResult>>

convVars == <<tool, emitted>>

otherVars == <<program, runs, fs, agent, catalog>>

-----------------------------------------------------------------------------
(* Bounds *)

MaxChunks == 2
MaxParams == 2
MaxTools == 2
NumRuns == 2

-----------------------------------------------------------------------------
(* Tokens *)

MARK == "CODEMODE_RESULT:"
SP == " "
NL == "\n"
LB == "{"
RB == "}"
COMMA == ","
GARBAGE == "garbage"

mSuccT == "\"success\": true"
mSuccF == "\"success\": false"
mResA == "\"result\": \"A\""
mResB == "\"result\": \"B\""
mRes5 == "\"result\": 5"
mErrE == "\"error\": \"E\""
mErrNull == "\"error\": null"
mErrNoRes == "\"error\": \"No result returned\""
mErrType == "\"error\": \"Object of type set is not JSON serializable\""
kResult == "\"result\": "

PyNone == <<"<None>">>
PyTrue == <<"<True>">>
PyFalse == <<"<False>">>
PyDict == <<"<dict>">>
PySet == <<"<set>">>
Py5 == <<"<5>">>
ABSENT == <<"<absent>">>

Str(s) == <<s>>

Max(S) == CHOOSE x \in S : \A y \in S : y <= x

IsPrefix(p, s) == Len(p) <= Len(s) /\ SubSeq(s, 1, Len(p)) = p

\* s occurs in t as a contiguous run of tokens starting after position from
Occurs(s, t, from) ==
    \E i \in from..(Len(t) - Len(s)) : SubSeq(t, i + 1, i + Len(s)) = s

-----------------------------------------------------------------------------
(* json.loads on a captured payload *)

IsWS(tok) == tok \in {SP, NL}

RECURSIVE SkipWS(_, _)
SkipWS(t, i) == IF i <= Len(t) /\ IsWS(t[i]) THEN SkipWS(t, i + 1) ELSE i

EmptyObj == [success |-> ABSENT, result |-> ABSENT, error |-> ABSENT]

AtomMembers == {mSuccT, mSuccF, mResA, mResB, mRes5, mErrE, mErrNull, mErrNoRes, mErrType}

MemberKey(tok) ==
    IF tok \in {mSuccT, mSuccF} THEN "success"
    ELSE IF tok \in {mResA, mResB, mRes5} THEN "result"
    ELSE "error"

MemberVal(tok) ==
    CASE tok = mSuccT -> PyTrue
      [] tok = mSuccF -> PyFalse
      [] tok = mResA -> Str("A")
      [] tok = mResB -> Str("B")
      [] tok = mRes5 -> Py5
      [] tok = mErrE -> Str("E")
      [] tok = mErrNull -> PyNone
      [] tok = mErrNoRes -> Str("No result returned")
      [] tok = mErrType -> Str("Object of type set is not JSON serializable")

ParseFail(msg) == [ok |-> FALSE, pos |-> 0, obj |-> EmptyObj, err |-> msg]
ParseOk(p, o) == [ok |-> TRUE, pos |-> p, obj |-> o, err |-> ""]

RECURSIVE ParseObject(_, _)
RECURSIVE ParseMembers(_, _, _)
RECURSIVE AfterMember(_, _, _)

\* t[i] is the opening brace
ParseObject(t, i) ==
    LET j == SkipWS(t, i + 1) IN
    IF j <= Len(t) /\ t[j] = RB THEN ParseOk(j + 1, EmptyObj)
    ELSE ParseMembers(t, j, EmptyObj)

ParseMembers(t, i, obj) ==
    IF i > Len(t) THEN ParseFail("Expecting property name enclosed in double quotes")
    ELSE IF t[i] \in AtomMembers
    THEN AfterMember(t, i + 1, [obj EXCEPT ![MemberKey(t[i])] = MemberVal(t[i])])
    ELSE IF t[i] = kResult
    THEN LET j == SkipWS(t, i + 1) IN
         IF j <= Len(t) /\ t[j] = LB
         THEN LET v == ParseObject(t, j) IN
              IF v.ok THEN AfterMember(t, v.pos, [obj EXCEPT !.result = PyDict])
              ELSE v
         ELSE ParseFail("Expecting value")
    ELSE ParseFail("Expecting property name enclosed in double quotes")

AfterMember(t, i, obj) ==
    LET j == SkipWS(t, i) IN
    IF j > Len(t) THEN ParseFail("Expecting ',' delimiter")
    ELSE IF t[j] = RB THEN ParseOk(j + 1, obj)
    ELSE IF t[j] = COMMA THEN ParseMembers(t, SkipWS(t, j + 1), obj)
    ELSE ParseFail("Expecting ',' delimiter")

json_loads(t) ==
    LET i == SkipWS(t, 1) IN
    IF i > Len(t) \/ t[i] # LB THEN ParseFail("Expecting value")
    ELSE LET r == ParseObject(t, i) IN
         IF ~r.ok THEN r
         ELSE IF SkipWS(t, r.pos) <= Len(t) THEN ParseFail("Extra data")
         ELSE r

\* dict.get(key): None when the key is absent
DictGet(obj, key) == IF obj[key] = ABSENT THEN PyNone ELSE obj[key]

\* dict.get(key, default)
DictGetDefault(obj, key, default) == IF obj[key] = ABSENT THEN default ELSE obj[key]

\* a presence test in place of the truth test: any value but None counts
TruthyWhenPresent(v) == v # <<"<None>">>

\* Python truth value of a JSON value
Truthy(v) == v \notin {PyNone, PyFalse, <<>>, <<"<0>">>}

-----------------------------------------------------------------------------
(* re.findall(r"CODEMODE_RESULT:\s*({.*})", text, re.DOTALL) *)

\* re.DOTALL: the dot matches every character, newline included
Dot(tok) == TRUE

\* the capture without its closing brace, ({.*): it runs to the end of the text
CaptureToEnd(t, j) == Len(t)

\* the greedy .* followed by the closing brace: the last closing brace that
\* the dot can reach from the opening brace at j, 0 when there is none
GreedyClose(t, j) ==
    LET C == {k \in (j + 1)..Len(t) :
                 t[k] = RB /\ \A m \in (j + 1)..(k - 1) : Dot(t[m])}
    IN IF C = {} THEN 0 ELSE Max(C)

RECURSIVE findall(_, _)
findall(t, from) ==
    IF from > Len(t) THEN <<>>
    ELSE IF t[from] # MARK THEN findall(t, from + 1)
    ELSE LET j == SkipWS(t, from + 1)
             k == IF j <= Len(t) /\ t[j] = LB THEN GreedyClose(t, j) ELSE 0
         IN IF k = 0 THEN findall(t, from + 1)
            ELSE <<SubSeq(t, j, k)>> \o findall(t, k + 1)

\* matches[-1]
LastMatch(matches) == matches[Len(matches)]

-----------------------------------------------------------------------------
(* Formatting an int into an f-string: its decimal digits *)

Digit(d) ==
    CASE d = 0 -> "0" [] d = 1 -> "1" [] d = 2 -> "2" [] d = 3 -> "3" [] d = 4 -> "4"
      [] d = 5 -> "5" [] d = 6 -> "6" [] d = 7 -> "7" [] d = 8 -> "8" [] d = 9 -> "9"

RECURSIVE ToDecimal(_)
ToDecimal(n) == IF n < 10 THEN <<Digit(n)>> ELSE ToDecimal(n \div 10) \o <<Digit(n % 10)>>

-----------------------------------------------------------------------------
(* Configuration and process outputs *)

DefaultTimeout == 300

\* the caller's configurations: the default timeout and a shorter one
Configs ==
    [timeout : {45, DefaultTimeout},
     preserve_workspace : BOOLEAN,
     workspace_dir : BOOLEAN]

cOkA == <<MARK, SP, LB, mSuccT, COMMA, SP, mResA, RB>>
cOkB == <<MARK, SP, LB, mSuccT, COMMA, SP, mResB, RB>>
cOk5 == <<MARK, SP, LB, mRes5, COMMA, SP, mSuccT, RB>>
cFailE == <<MARK, SP, LB, mSuccF, COMMA, SP, mErrE, RB>>
cFailNull == <<MARK, SP, LB, mSuccF, COMMA, SP, mErrNull, RB>>
cEmptyObj == <<MARK, LB, RB>>
cBad == <<MARK, SP, LB, GARBAGE, RB>>
cNested == <<MARK, SP, LB, mSuccT, COMMA, SP, kResult, LB, RB, RB>>
cText == <<SP, GARBAGE>>
cBare == <<MARK, SP, GARBAGE>>
cClose == <<RB, NL>>

Chunks == {cOkA, cOkB, cOk5, cFailE, cFailNull, cEmptyObj, cBad, cNested,
           cText, cBare, cClose}

\* the texts a process can print: up to n chunks, one after the other
RECURSIVE Outputs(_)
Outputs(n) ==
    IF n = 0 THEN {<<>>}
    ELSE LET P == Outputs(n - 1) IN P \cup {p \o c : p \in P, c \in Chunks}

PrimaryStdouts == Outputs(MaxChunks)
PrimaryStderrs == {<<>>, <<GARBAGE, SP, RB>>, cFailE}

FallbackStdouts ==
    {<<>>, cOkA, cOkA \o <<NL>> \o cOkB, cOk5 \o cText, cNested, cFailE, cFailNull,
     cEmptyObj, cBad, cBare, cText \o cClose}
FallbackStderrs == {<<>>, cOkB, <<GARBAGE, SP, RB>>}

\* stdout + "\n" + stderr
FullOutput(stdout, stderr) == stdout \o <<NL>> \o stderr

TimeoutMessage(cfg) ==
    <<"Execution timed out after ">> \o ToDecimal(cfg.timeout) \o <<" seconds">>

NotFoundMessage ==
    <<"Claude Code not found at: ", "claude", ". ",
      "Make sure Claude Code is installed and in your PATH.">>

ExecErrorMessage == <<"Execution error: ", "launch failed">>

-----------------------------------------------------------------------------
(* CodeModeResult and the classification of a process output *)

CodeModeResult(output, log, success, error) ==
    [output |-> output, execution_log |-> log, success |-> success, error |-> error]

NoResult == CodeModeResult(PyNone, <<>>, FALSE, PyNone)

\* the branch of extract_result taken when the pattern matched
ClassifyMatch(full_output, matches) ==
    LET d == json_loads(LastMatch(matches)) IN
    IF ~d.ok
    THEN CodeModeResult(PyNone, full_output, FALSE, <<"Failed to parse result: ", d.err>>)
    ELSE IF Truthy(DictGet(d.obj, "success"))
    THEN CodeModeResult(DictGet(d.obj, "result"), full_output, TRUE, PyNone)
    ELSE CodeModeResult(PyNone, full_output, FALSE,
                        DictGetDefault(d.obj, "error", Str("Unknown error")))

\* the fallback also taken when the last match does not parse
NoMarkerOrUnparsed(full_output) ==
    IF findall(full_output, 1) = <<>> THEN TRUE
    ELSE ~json_loads(LastMatch(findall(full_output, 1))).ok

\* "if matches:" fails, so extract_result goes on to _execute_runner_directly
NoMarker(full_output) == findall(full_output, 1) = <<>>

\* the not-found failure with an empty log
NotFoundResultWithoutLog(previous_output) ==
    CodeModeResult(PyNone, <<>>, FALSE, Str("agentRunner.py not found in workspace"))

NotFoundResult(previous_output) ==
    CodeModeResult(PyNone, previous_output, FALSE, Str("agentRunner.py not found in workspace"))

\* the failure of the except branch with an empty log
RunnerExceptionWithoutLog(previous_output, msg) ==
    CodeModeResult(PyNone, <<>>, FALSE, <<"Failed to execute runner: ", msg>>)

RunnerException(previous_output, msg) ==
    CodeModeResult(PyNone, previous_output, FALSE, <<"Failed to execute runner: ", msg>>)

\* the direct execution classified without "if result.returncode == 0"
DirectResultAnyExit(previous_output, rc, stdout, stderr) ==
    LET full_output == previous_output \o <<NL, NL, "Direct execution:", NL>> \o stdout
        matches == findall(stdout, 1)
        failed == CodeModeResult(PyNone, full_output \o <<NL>> \o stderr, FALSE,
                                 Str("Failed to execute agentRunner.py"))
    IN IF matches # <<>>
       THEN LET d == json_loads(LastMatch(matches)) IN
            IF ~d.ok THEN RunnerException(previous_output, d.err)
            ELSE IF Truthy(DictGet(d.obj, "success"))
            THEN CodeModeResult(DictGet(d.obj, "result"), full_output, TRUE, PyNone)
            ELSE failed
       ELSE failed

\* the direct execution classified as the primary is: the pattern searched in
\* stdout + "\n" + stderr, whatever the exit status
DirectResultBothStreams(previous_output, rc, stdout, stderr) ==
    LET full_output == previous_output \o <<NL, NL, "Direct execution:", NL>> \o stdout
        matches == findall(FullOutput(stdout, stderr), 1)
        failed == CodeModeResult(PyNone, full_output \o <<NL>> \o stderr, FALSE,
                                 Str("Failed to execute agentRunner.py"))
    IN IF matches # <<>>
       THEN LET d == json_loads(LastMatch(matches)) IN
            IF ~d.ok THEN RunnerException(previous_output, d.err)
            ELSE IF Truthy(DictGet(d.obj, "success"))
            THEN CodeModeResult(DictGet(d.obj, "result"), full_output, TRUE, PyNone)
            ELSE failed
       ELSE failed

\* _execute_runner_directly once subprocess.run has returned
DirectResult(previous_output, rc, stdout, stderr) ==
    LET full_output == previous_output \o <<NL, NL, "Direct execution:", NL>> \o stdout
        matches == findall(stdout, 1)
        failed == CodeModeResult(PyNone, full_output \o <<NL>> \o stderr, FALSE,
                                 Str("Failed to execute agentRunner.py"))
    IN IF rc = 0 /\ matches # <<>>
       THEN LET d == json_loads(LastMatch(matches)) IN
            IF ~d.ok THEN RunnerException(previous_output, d.err)
            ELSE IF Truthy(DictGet(d.obj, "success"))
            THEN CodeModeResult(DictGet(d.obj, "result"), full_output, TRUE, PyNone)
            ELSE failed
       ELSE failed

-----------------------------------------------------------------------------
(* ToolDefinition and ToolConverter.generate_function_code *)

\* parameter names of the tools, the reserved context names among them
ParamNames == {"ctx", "context", "run_context", "city", "count", "unit"}

\* param.annotation.__name__, "" for inspect.Parameter.empty
Annotation(name) ==
    CASE name \in {"ctx", "run_context"} -> "RunContext"
      [] name = "city" -> "str"
      [] name = "count" -> "int"
      [] OTHER -> ""

\* param.default already formatted (a string default in quotes), "" for empty
DefaultText(name) ==
    CASE name = "count" -> "1"
      [] name = "unit" -> "\"C\""
      [] OTHER -> ""

Distinct(ps) == \A i, j \in 1..Len(ps) : i # j => ps[i] # ps[j]

\* Python accepts no parameter without default after one with a default
ValidSignature(ps) ==
    /\ Distinct(ps)
    /\ \A i, j \in 1..Len(ps) : (i < j /\ DefaultText(ps[i]) # "") => DefaultText(ps[j]) # ""

RECURSIVE ParamSeqs(_)
ParamSeqs(n) ==
    IF n = 0 THEN {<<>>}
    ELSE LET P == ParamSeqs(n - 1) IN P \cup {Append(ps, x) : ps \in P, x \in ParamNames}

\* source: "available" (inspect.getsource gives a def), "async" (the source has
\* no line starting with "def "), "oserror" (inspect.getsource raises)
Tools ==
    [name : {"get_weather"},
     parameters : {ps \in ParamSeqs(MaxParams) : ValidSignature(ps)},
     source : {"available", "async", "oserror"},
     decorated : BOOLEAN,
     description : BOOLEAN]

NoTool ==
    [name |-> "", parameters |-> <<>>, source |-> "oserror", decorated |-> FALSE,
     description |-> FALSE]

\* one parameter as text: name, ": annotation", " = default"
ParamStr(name) ==
    <<name>> \o (IF Annotation(name) # "" THEN <<": ", Annotation(name)>> ELSE <<>>)
             \o (IF DefaultText(name) # "" THEN <<" = ", DefaultText(name)>> ELSE <<>>)

RECURSIVE RenderAll(_)
RenderAll(ps) == IF ps = <<>> THEN <<>> ELSE <<ParamStr(Head(ps))>> \o RenderAll(Tail(ps))

Reserved == {"ctx", "context", "run_context"}

\* the loop over tool.parameters that skips the special parameters
RECURSIVE FilterParams(_)
FilterParams(ps) ==
    IF ps = <<>> THEN <<>>
    ELSE IF Head(ps) \in Reserved THEN FilterParams(Tail(ps))
    ELSE <<Head(ps)>> \o FilterParams(Tail(ps))

Line(kind, name, params) == [kind |-> kind, name |-> name, params |-> params]

\* the text inspect.getsource returns, line by line: the decorators, the
\* function's own def line as its author wrote it, the body
SourceLines(t) ==
    (IF t.decorated THEN <<Line("decorator", "@agent.tool", <<>>)>> ELSE <<>>)
    \o <<Line(IF t.source = "async" THEN "async def" ELSE "def", t.name,
              RenderAll(t.parameters))>>
    \o (IF t.description THEN <<Line("docstring", "", <<>>)>> ELSE <<>>)
    \o <<Line("body", "return", <<>>)>>

\* line.strip().startswith('def ')
StartsWithDef(line) == line.kind = "def"

\* the lines from the first def line on
RECURSIVE FuncLines(_)
FuncLines(lines) ==
    IF lines = <<>> THEN <<>>
    ELSE IF StartsWithDef(Head(lines)) THEN lines
    ELSE FuncLines(Tail(lines))

StubLines(t) ==
    <<Line("def", t.name, RenderAll(FilterParams(t.parameters)))>>
    \o (IF t.description THEN <<Line("docstring", "", <<>>)>> ELSE <<>>)
    \o <<Line("comment", "# Tool implementation", <<>>),
         Line("comment", "# This function should be implemented", <<>>),
         Line("body", "pass", <<>>)>>

generate_function_code(t) ==
    LET func_lines == IF t.source = "oserror" THEN <<>> ELSE FuncLines(SourceLines(t))
    IN IF func_lines # <<>> THEN func_lines ELSE StubLines(t)

-----------------------------------------------------------------------------
(* ToolConverter.extract_tools *)

\* a callable: its identity, its __name__, its docstring ("" for none)
Func(id, name, doc) == [id |-> id, name |-> name, doc |-> doc]

\* three callables, two of them with the same __name__
Funcs ==
    {Func(1, "get_weather", "Get the weather"), Func(2, "get_weather", ""),
     Func(3, "get_time", "Get the time")}

\* a pydantic-ai tool wrapper: name and description ("" for None), function
Wrapper(name, description, function) ==
    [name |-> name, description |-> description, function |-> function]

Wrappers ==
    {Wrapper("", "", f) : f \in Funcs}
    \cup {Wrapper("lookup", "Look something up", Func(1, "get_weather", "Get the weather"))}

\* the sequences over S of length up to n
RECURSIVE SeqsUpTo(_, _)
SeqsUpTo(S, n) ==
    IF n = 0 THEN {<<>>}
    ELSE LET P == SeqsUpTo(S, n - 1) IN P \cup {Append(q, x) : q \in P, x \in S}

\* the values() of a name -> wrapper mapping, in insertion order: a mapping
\* holds a wrapper once
Mappings == {m \in SeqsUpTo(Wrappers, MaxTools) : Distinct(m)}

\* one attribute of the agent: present or not; for _function_toolset, whether
\* the object has a tools attribute; the tools it holds
Attr(present, has_tools, entries) ==
    [present |-> present, has_tools |-> has_tools, entries |-> entries]

Missing == Attr(FALSE, FALSE, <<>>)

Agent(toolset, legacy, codemode) ==
    [_function_toolset |-> toolset, _function_tools |-> legacy, _codemode_tools |-> codemode]

NoAgent == Agent(Missing, Missing, Missing)

\* the agents before any register_codemode_tool: a ClaudeSDKClient starts with
\* _codemode_tools = []
Agents ==
    {Agent(ts, lg, cm) :
        ts \in {Missing, Attr(TRUE, FALSE, <<>>)} \cup {Attr(TRUE, TRUE, m) : m \in Mappings},
        lg \in {Missing} \cup {Attr(TRUE, TRUE, m) : m \in Mappings},
        cm \in {Missing, Attr(TRUE, TRUE, <<>>)}}

ToolDefinition(name, function, description) ==
    [name |-> name, function |-> function, description |-> description]

\* "x or y" on strings
Or(x, y) == IF x # "" THEN x ELSE y

\* the loop over the wrappers of a mapping
RECURSIVE FromWrappers(_)
FromWrappers(ws) ==
    IF ws = <<>> THEN <<>>
    ELSE <<ToolDefinition(Or(Head(ws).name, Head(ws).function.name), Head(ws).function,
                          Or(Head(ws).description, Head(ws).function.doc))>>
         \o FromWrappers(Tail(ws))

\* a callable already in the catalog is left out
RECURSIVE FromFuncsOnce(_)
FromFuncsOnce(fns) ==
    IF fns = <<>> THEN <<>>
    ELSE LET rest == FromFuncsOnce(SubSeq(fns, 1, Len(fns) - 1))
             f == fns[Len(fns)]
         IN IF \E k \in 1..Len(rest) : rest[k].function = f THEN rest
            ELSE Append(rest, ToolDefinition(f.name, f, f.doc))

\* the loop over the callables of _codemode_tools
RECURSIVE FromFuncs(_)
FromFuncs(fns) ==
    IF fns = <<>> THEN <<>>
    ELSE <<ToolDefinition(Head(fns).name, Head(fns), Head(fns).doc)>> \o FromFuncs(Tail(fns))

\* every shape that is present is read, one after the other
extract_tools_all(a) ==
    (IF a._function_toolset.present /\ a._function_toolset.has_tools
     THEN FromWrappers(a._function_toolset.entries) ELSE <<>>)
    \o (IF a._function_tools.present THEN FromWrappers(a._function_tools.entries) ELSE <<>>)
    \o (IF a._codemode_tools.present THEN FromFuncs(a._codemode_tools.entries) ELSE <<>>)

\* the if / elif / elif on hasattr, then "return tools"
extract_tools(a) ==
    IF a._function_toolset.present /\ a._function_toolset.has_tools
    THEN FromWrappers(a._function_toolset.entries)
    ELSE IF a._function_tools.present THEN FromWrappers(a._function_tools.entries)
    ELSE IF a._codemode_tools.present THEN FromFuncs(a._codemode_tools.entries)
    ELSE <<>>

-----------------------------------------------------------------------------
(* The generated program run as a script: the __main__ block of the template *)

ProcessResult(rc, stdout, stderr) == [rc |-> rc, stdout |-> stdout, stderr |-> stderr]

NoProcess == ProcessResult(0, <<>>, <<>>)

\* the values main() returns that json.dumps can serialize
MainValues == {Str("A"), Str("B"), Py5, PyDict}

\* the "result" member json.dumps writes for a value
ResultMember(v) ==
    CASE v = Str("A") -> <<mResA>>
      [] v = Str("B") -> <<mResB>>
      [] v = Py5 -> <<mRes5>>
      [] v = PyDict -> <<kResult, LB, RB>>

\* the text main() itself prints on stdout before it ends: no marker in it
TextChunks == {cText \o <<NL>>, cClose}

RECURSIVE Texts(_)
Texts(n) ==
    IF n = 0 THEN {<<>>}
    ELSE LET P == Texts(n - 1) IN P \cup {p \o c : p \in P, c \in TextChunks}

Main(kind, value, printed, code) ==
    [kind |-> kind, value |-> value, printed |-> printed, code |-> code]

NoMain == Main("none", PyNone, <<>>, 0)

\* how main() can end: it returns a serializable value, returns None, returns
\* a value json.dumps rejects, raises an Exception, or leaves through
\* SystemExit (sys.exit(code)), which "except Exception" does not catch
Mains ==
    {Main("value", v, t, 0) : v \in MainValues, t \in Texts(MaxChunks)}
    \cup {Main("none", PyNone, t, 0) : t \in Texts(MaxChunks)}
    \cup {Main("unserializable", PySet, t, 0) : t \in Texts(MaxChunks)}
    \cup {Main("raise", Str("E"), t, 0) : t \in Texts(MaxChunks)}
    \cup {Main("exit", PyNone, t, c) : t \in Texts(MaxChunks), c \in {0, 2}}

\* the stub main() reported on stderr with exit status 1, as a raise is
ProgramRunNoneFails(m) ==
    IF m.kind = "none"
    THEN ProcessResult(1, m.printed,
                       <<MARK, SP, LB, mErrNoRes, COMMA, SP, mSuccF, RB, NL>>)
    ELSE ProcessResult(m.code, m.printed, <<>>)

\* the __main__ block: result = main(), then the marker line by print; the
\* arguments of print are evaluated first, so a TypeError of json.dumps goes to
\* the except branch with nothing printed
ProgramRun(m) ==
    CASE m.kind = "value" ->
            ProcessResult(0, m.printed \o <<MARK, SP, LB>> \o ResultMember(m.value)
                                       \o <<COMMA, SP, mSuccT, RB, NL>>, <<>>)
      [] m.kind = "none" ->
            ProcessResult(0, m.printed
                             \o <<MARK, SP, LB, mErrNoRes, COMMA, SP, mSuccF, RB, NL>>, <<>>)
      [] m.kind = "unserializable" ->
            ProcessResult(1, m.printed,
                          <<MARK, SP, LB, mErrType, COMMA, SP, mSuccF, RB, NL>>)
      [] m.kind = "raise" ->
            ProcessResult(1, m.printed,
                          <<MARK, SP, LB, mErrE, COMMA, SP, mSuccF, RB, NL>>)
      [] m.kind = "exit" -> ProcessResult(m.code, m.printed, <<>>)

\* main() returned a value, returned None, or raised, having printed nothing
TemplateRun(outcome) ==
    ProgramRun(Main(outcome,
                    CASE outcome = "value" -> Str("A")
                      [] outcome = "raise" -> Str("E")
                      [] OTHER -> PyNone,
                    <<>>, 0))

\* the interpreter could not load the file: a traceback on stderr, exit status 1
LoadFailure == ProcessResult(1, <<>>, <<"Traceback", NL>>)

\* what running agentRunner.py can print, by the state of the file: the unedited
\* program has the stub main(), which returns None; an edited one is the agent's
RunnerOutcomes(file) ==
    IF file = "generated" THEN {TemplateRun("none"), LoadFailure}
    ELSE [rc : {0, 1}, stdout : FallbackStdouts, stderr : FallbackStderrs]

IdleProg == program = NoMain

IdleConc == runs = <<>> /\ fs = <<>>

IdleCat == agent = NoAgent /\ catalog = <<>>

-----------------------------------------------------------------------------
(* run's call of extract_result, as a function of what the environment answers *)

\* str(e) of what subprocess.run raises in _execute_runner_directly:
\* TimeoutExpired after the fixed 60 seconds, or the interpreter is missing
DirectLaunchFaults == {"timed out after 60 seconds", "No such file or directory: 'python'"}

\* how the direct execution ended: subprocess.run returned p, or raised msg
Completed(p) == [raised |-> FALSE, msg |-> "", proc |-> p]
Raised(msg) == [raised |-> TRUE, msg |-> msg, proc |-> NoProcess]
NoDirectRun == Completed(NoProcess)

\* extract_result searching the primary's output only when it exited with 0
ExtractArgsOnSuccess(prim) ==
    IF prim.success THEN FullOutput(prim.stdout, prim.stderr) ELSE <<NL>>

\* success, stdout, stderr = execute_with_claude_code(...); run hands stdout and
\* stderr to extract_result, which joins them; success is not passed on
ExtractArgs(prim) == FullOutput(prim.stdout, prim.stderr)

\* the CodeModeResult extract_result builds for the triple prim, when
\* agentRunner.py is in state file and the direct execution ends as direct
ResultOf(prim, file, direct) ==
    LET full_output == ExtractArgs(prim) IN
    IF ~NoMarker(full_output) THEN ClassifyMatch(full_output, findall(full_output, 1))
    ELSE IF file = "absent" THEN NotFoundResult(full_output)
    ELSE IF direct.raised THEN RunnerException(full_output, direct.msg)
    ELSE DirectResult(full_output, direct.proc.rc, direct.proc.stdout, direct.proc.stderr)

\* the triple of the run that differs in the primary's exit status only
Twin(prim) == [prim EXCEPT !.success = ~prim.success]

-----------------------------------------------------------------------------
(* CodeMode.run *)

Init ==
    /\ config \in Configs
    /\ pc = "start"
    /\ dirState = "none"
    /\ runnerFile = "absent"
    /\ primary = [success |-> FALSE, stdout |-> <<>>, stderr |-> <<>>]
    /\ fallback = NoProcess
    /\ result = NoResult
    /\ returned = NoResult
    /\ launches = <<>>
    /\ fallbackEntered = FALSE
    /\ pending = FALSE
    /\ rmtree = "none"
    /\ twinResult = NoResult
    /\ tool = NoTool
    /\ emitted = <<>>
    /\ IdleProg
    /\ IdleConc
    /\ IdleCat

\* create_workspace, called before run's try block: mkdir or mkdtemp, then the
\* write of agentRunner.py; either may raise an OSError, which leaves run at once
CreateWorkspace ==
    /\ pc = "start"
    /\ \E outcome \in {"ok", "mkdir_raises", "write_raises"} :
          /\ dirState' = IF outcome = "mkdir_raises" THEN dirState ELSE "exists"
          /\ runnerFile' = IF outcome = "ok" THEN "generated" ELSE runnerFile
          /\ pc' = IF outcome = "ok" THEN "created" ELSE "raised"
    /\ UNCHANGED <<twinResult, fallbackEntered, config, primary, fallback, result, returned, launches, pending,
                   rmtree, convVars, otherVars>>

\* execute_with_claude_code: the write of the instructions file raises, before
\* the function's own try block; the exception leaves run through its finally
InstructionsWriteRaises ==
    /\ pc = "created"
    /\ pending' = TRUE
    /\ pc' = "finally"
    /\ UNCHANGED <<twinResult, fallbackEntered, config, dirState, runnerFile, primary, fallback, result, returned,
                   launches, rmtree, convVars, otherVars>>

\* execute_with_claude_code: the agent process ran to its end; meanwhile it may
\* have edited or removed agentRunner.py
PrimaryCompletes ==
    /\ pc = "created"
    /\ \E rc \in {0, 1}, out \in PrimaryStdouts, err \in PrimaryStderrs :
          primary' = [success |-> (rc = 0), stdout |-> out, stderr |-> err]
    /\ runnerFile' \in {"generated", "edited", "absent"}
    /\ launches' = Append(launches, "primary")
    /\ pc' = "executed"
    /\ UNCHANGED <<twinResult, fallbackEntered, config, dirState, fallback, result, returned, pending, rmtree, convVars, otherVars>>

\* execute_with_claude_code: subprocess.TimeoutExpired; the agent was killed
\* wherever it was in its editing
PrimaryTimesOut ==
    /\ pc = "created"
    /\ primary' = [success |-> FALSE, stdout |-> <<>>, stderr |-> TimeoutMessage(config)]
    /\ runnerFile' \in {"generated", "edited", "absent"}
    /\ launches' = Append(launches, "primary")
    /\ pc' = "executed"
    /\ UNCHANGED <<twinResult, fallbackEntered, config, dirState, fallback, result, returned, pending, rmtree, convVars, otherVars>>

\* execute_with_claude_code: FileNotFoundError or another exception of the launch
PrimaryLaunchFails ==
    /\ pc = "created"
    /\ \E msg \in {NotFoundMessage, ExecErrorMessage} :
          primary' = [success |-> FALSE, stdout |-> <<>>, stderr |-> msg]
    /\ launches' = Append(launches, "primary")
    /\ pc' = "executed"
    /\ UNCHANGED <<twinResult, fallbackEntered, config, dirState, runnerFile, fallback, result, returned, pending,
                   rmtree, convVars, otherVars>>

\* extract_result, the pattern matched: the result is read from the last match
ExtractMarker ==
    /\ pc = "executed"
    /\ LET full_output == FullOutput(primary.stdout, primary.stderr) IN
          /\ ~NoMarker(full_output)
          /\ result' = ClassifyMatch(full_output, findall(full_output, 1))
    /\ twinResult' = ResultOf(Twin(primary), runnerFile, NoDirectRun)
    /\ pc' = "finally"
    /\ UNCHANGED <<fallbackEntered, config, dirState, runnerFile, primary, fallback, returned, launches,
                   pending, rmtree, convVars, otherVars>>

\* extract_result, no match, and _execute_runner_directly finds no file
FallbackFileMissing ==
    /\ pc = "executed"
    /\ NoMarker(FullOutput(primary.stdout, primary.stderr))
    /\ runnerFile = "absent"
    /\ result' = NotFoundResult(FullOutput(primary.stdout, primary.stderr))
    /\ twinResult' = ResultOf(Twin(primary), runnerFile, NoDirectRun)
    /\ fallbackEntered' = TRUE
    /\ pc' = "finally"
    /\ UNCHANGED <<config, dirState, runnerFile, primary, fallback, returned, launches,
                   pending, rmtree, convVars, otherVars>>

\* extract_result, no match, and _execute_runner_directly runs the file to its end
FallbackCompletes ==
    /\ pc = "executed"
    /\ NoMarker(FullOutput(primary.stdout, primary.stderr))
    /\ runnerFile # "absent"
    /\ \E p \in RunnerOutcomes(runnerFile) :
          /\ fallback' = p
          /\ result' = DirectResult(FullOutput(primary.stdout, primary.stderr),
                                    p.rc, p.stdout, p.stderr)
          /\ twinResult' = ResultOf(Twin(primary), runnerFile, Completed(p))
    /\ launches' = Append(launches, "fallback")
    /\ fallbackEntered' = TRUE
    /\ pc' = "finally"
    /\ UNCHANGED <<config, dirState, runnerFile, primary, returned, pending, rmtree,
                   convVars, otherVars>>

\* extract_result, no match, and subprocess.run in _execute_runner_directly
\* raises: TimeoutExpired after the fixed 60 seconds, or the interpreter is missing
FallbackRaises ==
    /\ pc = "executed"
    /\ NoMarker(FullOutput(primary.stdout, primary.stderr))
    /\ runnerFile # "absent"
    /\ \E msg \in DirectLaunchFaults :
          /\ result' = RunnerException(FullOutput(primary.stdout, primary.stderr), msg)
          /\ twinResult' = ResultOf(Twin(primary), runnerFile, Raised(msg))
    /\ launches' = Append(launches, "fallback")
    /\ fallbackEntered' = TRUE
    /\ pc' = "finally"
    /\ UNCHANGED <<config, dirState, runnerFile, primary, fallback, returned, pending,
                   rmtree, convVars, otherVars>>

\* a failed deletion turned into a failed run
ReturnValueFailingCleanup(res, cleanup) ==
    IF cleanup = "failed"
    THEN CodeModeResult(PyNone, res.execution_log, FALSE, Str("Failed to clean up workspace"))
    ELSE res

\* what run's "return result" hands over once the finally block has run
ReturnValue(res, cleanup) == res

\* the finally block of run: cleanup_workspace unless preservation is requested;
\* shutil.rmtree may raise, which cleanup_workspace swallows.  Then run returns
\* the result, or the pending exception goes on to the caller
Finally ==
    /\ pc = "finally"
    /\ \E outcome \in IF config.preserve_workspace THEN {"none"} ELSE {"ok", "failed"} :
          /\ rmtree' = outcome
          /\ dirState' = IF outcome = "ok" THEN "deleted" ELSE dirState
          /\ runnerFile' = IF outcome = "ok" THEN "absent" ELSE runnerFile
          /\ returned' = IF pending THEN returned ELSE ReturnValue(result, outcome)
    /\ pc' = IF pending THEN "raised" ELSE "done"
    /\ UNCHANGED <<twinResult, fallbackEntered, config, primary, fallback, result, launches, pending, convVars, otherVars>>

Next ==
    \/ CreateWorkspace
    \/ InstructionsWriteRaises
    \/ PrimaryCompletes
    \/ PrimaryTimesOut
    \/ PrimaryLaunchFails
    \/ ExtractMarker
    \/ FallbackFileMissing
    \/ FallbackCompletes
    \/ FallbackRaises
    \/ Finally

Spec == Init /\ [][Next]_vars

\* run is sequential code: as long as a step is possible, one is taken.  The
\* waits on the two child processes end: subprocess.run kills the child when
\* its timeout expires
SpecLive == Init /\ [][Next]_vars /\ WF_vars(Next)

-----------------------------------------------------------------------------
(* generate_function_code applied to one tool *)

InitConv ==
    /\ config = [timeout |-> DefaultTimeout, preserve_workspace |-> FALSE,
                 workspace_dir |-> FALSE]
    /\ pc = "generate"
    /\ dirState = "none"
    /\ runnerFile = "absent"
    /\ primary = [success |-> FALSE, stdout |-> <<>>, stderr |-> <<>>]
    /\ fallback = NoProcess
    /\ result = NoResult
    /\ returned = NoResult
    /\ launches = <<>>
    /\ fallbackEntered = FALSE
    /\ pending = FALSE
    /\ rmtree = "none"
    /\ twinResult = NoResult
    /\ tool \in Tools
    /\ emitted = <<>>
    /\ IdleProg
    /\ IdleConc
    /\ IdleCat

GenerateFunctionCode ==
    /\ pc = "generate"
    /\ emitted' = generate_function_code(tool)
    /\ pc' = "generated"
    /\ UNCHANGED <<config, dirState, runnerFile, primary, fallback, result, returned,
                   launches, fallbackEntered, pending, rmtree, twinResult, tool, otherVars>>

NextConv == GenerateFunctionCode

SpecConv == InitConv /\ [][NextConv]_vars

-----------------------------------------------------------------------------
(* agentRunner.py run as a script, for every way main() can end *)

IdleRun ==
    /\ config = [timeout |-> DefaultTimeout, preserve_workspace |-> FALSE,
                 workspace_dir |-> FALSE]
    /\ dirState = "none"
    /\ runnerFile = "absent"
    /\ primary = [success |-> FALSE, stdout |-> <<>>, stderr |-> <<>>]
    /\ fallback = NoProcess
    /\ result = NoResult
    /\ returned = NoResult
    /\ launches = <<>>
    /\ fallbackEntered = FALSE
    /\ pending = FALSE
    /\ rmtree = "none"
    /\ twinResult = NoResult

IdleConv == tool = NoTool /\ emitted = <<>>

InitProg ==
    /\ IdleRun
    /\ IdleConv
    /\ IdleConc
    /\ IdleCat
    /\ pc = "script"
    /\ program \in Mains

RunProgram ==
    /\ pc = "script"
    /\ fallback' = ProgramRun(program)
    /\ pc' = "exited"
    /\ UNCHANGED <<config, dirState, runnerFile, primary, result, returned, launches,
                   fallbackEntered, pending, rmtree, twinResult, convVars, otherVars>>

NextProg == RunProgram

SpecProg == InitProg /\ [][NextProg]_vars

-----------------------------------------------------------------------------
(* Concurrent calls of CodeMode.run on one file system *)

RunIds == 1..NumRuns

NoDir == <<"none", 0>>

\* the names mkdtemp(prefix="codemode_") can give, and a directory callers pin
TempDirs == {<<"codemode_", n>> : n \in RunIds}
PinnedDirs == {<<"pinned", 1>>}
Dirs == TempDirs \cup PinnedDirs

\* agentRunner.py in a directory: whose program it is, as generated or edited
File(state, owner) == [state |-> state, owner |-> owner]
NoFile == File("absent", 0)

\* how a run ended: by a marker of the primary, by the missing file, by the
\* direct execution of the file it found, or by an exception
Outcome(kind, file) == [kind |-> kind, file |-> file]
Pending == Outcome("pending", NoFile)

\* a temporary directory under a name other runs may hold
AnyTempDir(f) == TempDirs

\* tempfile.mkdtemp creates a directory that did not exist
FreshTempDirs(f) == {d \in TempDirs : ~f[d].exists}

InitConc ==
    /\ IdleRun
    /\ IdleConv
    /\ IdleProg
    /\ IdleCat
    /\ pc = "concurrent"
    /\ runs \in [RunIds -> [pc : {"start"}, workspace_dir : {NoDir} \cup PinnedDirs,
                            preserve_workspace : BOOLEAN, workspace : {NoDir},
                            alone : {Pending}, got : {Pending}]]
    /\ fs = [d \in Dirs |-> [exists |-> FALSE, file |-> NoFile]]

ConcUnchanged ==
    UNCHANGED <<runVars, convVars, program, agent, catalog>>

\* create_workspace: mkdir(parents=True, exist_ok=True) of the pinned
\* directory, or mkdtemp
MakeDir(i) ==
    /\ runs[i].pc = "start"
    /\ \E d \in IF runs[i].workspace_dir # NoDir THEN {runs[i].workspace_dir}
                  ELSE FreshTempDirs(fs) :
          /\ fs' = [fs EXCEPT ![d].exists = TRUE]
          /\ runs' = [runs EXCEPT ![i].workspace = d, ![i].pc = "mkdir"]
    /\ ConcUnchanged

\* create_workspace: runner_file.write_text(runner_code); FileNotFoundError
\* when the directory is gone, raised before run's try block
WriteRunner(i) ==
    /\ runs[i].pc = "mkdir"
    /\ LET d == runs[i].workspace IN
          IF fs[d].exists
          THEN /\ fs' = [fs EXCEPT ![d].file = File("generated", i)]
               /\ runs' = [runs EXCEPT ![i].pc = "created"]
          ELSE /\ fs' = fs
               /\ runs' = [runs EXCEPT ![i].pc = "raised", ![i].got = Outcome("raised", NoFile)]
    /\ ConcUnchanged

\* execute_with_claude_code: the instructions file is written (FileNotFoundError
\* when the directory is gone), then the agent runs in the directory: it
\* leaves agentRunner.py as it is, edits it or removes it, and its output
\* holds a marker or not
AgentRuns(i) ==
    /\ runs[i].pc = "created"
    /\ LET d == runs[i].workspace IN
          IF ~fs[d].exists
          THEN /\ fs' = fs
               /\ runs' = [runs EXCEPT ![i].pc = "finally", ![i].got = Outcome("raised", NoFile)]
          ELSE \E act \in {"keep", "edit", "remove"}, marker \in BOOLEAN :
                  LET own == CASE act = "keep" -> File("generated", i)
                               [] act = "edit" -> File("edited", i)
                               [] act = "remove" -> NoFile
                  IN /\ fs' = [fs EXCEPT ![d].file = IF act = "keep" THEN @ ELSE own]
                     /\ runs' = [runs EXCEPT
                            ![i].alone = IF marker THEN Outcome("primary", NoFile)
                                         ELSE IF own = NoFile THEN Outcome("notfound", NoFile)
                                         ELSE Outcome("direct", own),
                            ![i].got = IF marker THEN Outcome("primary", NoFile) ELSE @,
                            ![i].pc = IF marker THEN "finally" ELSE "extract"]
    /\ ConcUnchanged

\* _execute_runner_directly: "if not runner_file.exists()"
CheckRunnerFile(i) ==
    /\ runs[i].pc = "extract"
    /\ LET d == runs[i].workspace IN
          IF fs[d].exists /\ fs[d].file # NoFile
          THEN runs' = [runs EXCEPT ![i].pc = "direct"]
          ELSE runs' = [runs EXCEPT ![i].pc = "finally", ![i].got = Outcome("notfound", NoFile)]
    /\ fs' = fs
    /\ ConcUnchanged

\* _execute_runner_directly: subprocess.run(["python", str(runner_file)]) runs
\* whatever file is at the path now
DirectRun(i) ==
    /\ runs[i].pc = "direct"
    /\ runs' = [runs EXCEPT ![i].pc = "finally",
                            ![i].got = Outcome("direct", fs[runs[i].workspace].file)]
    /\ fs' = fs
    /\ ConcUnchanged

\* the finally block of run: shutil.rmtree(workspace) unless preservation is
\* requested; then run returns, or the pending exception goes on
CleanupRun(i) ==
    /\ runs[i].pc = "finally"
    /\ fs' = IF runs[i].preserve_workspace THEN fs
             ELSE [fs EXCEPT ![runs[i].workspace] = [exists |-> FALSE, file |-> NoFile]]
    /\ runs' = [runs EXCEPT ![i].pc = IF runs[i].got.kind = "raised" THEN "raised" ELSE "done"]
    /\ ConcUnchanged

NextConc ==
    \E i \in RunIds :
        \/ MakeDir(i)
        \/ WriteRunner(i)
        \/ AgentRuns(i)
        \/ CheckRunnerFile(i)
        \/ DirectRun(i)
        \/ CleanupRun(i)

SpecConc == InitConc /\ [][NextConc]_vars

-----------------------------------------------------------------------------
(* extract_tools applied to an agent, after the registrations on it *)

InitCat ==
    /\ IdleRun
    /\ IdleConv
    /\ IdleProg
    /\ IdleConc
    /\ pc = "registering"
    /\ agent \in Agents
    /\ catalog = <<>>

CatUnchanged ==
    UNCHANGED <<config, dirState, runnerFile, primary, fallback, result, returned, launches,
                fallbackEntered, pending, rmtree, twinResult, convVars, program, runs, fs>>

\* register_codemode_tool: the attribute is created when missing, func appended
RegisterCodemodeTool ==
    /\ pc = "registering"
    /\ Len(agent._codemode_tools.entries) < MaxTools
    /\ \E func \in Funcs :
          agent' = [agent EXCEPT !._codemode_tools =
                                     Attr(TRUE, TRUE, Append(@.entries, func))]
    /\ UNCHANGED <<pc, catalog>>
    /\ CatUnchanged

ExtractTools ==
    /\ pc = "registering"
    /\ catalog' = extract_tools(agent)
    /\ pc' = "extracted"
    /\ UNCHANGED agent
    /\ CatUnchanged

NextCat == RegisterCodemodeTool \/ ExtractTools

SpecCat == InitCat /\ [][NextCat]_vars

-----------------------------------------------------------------------------
(* Properties *)

\* extract_result has returned a CodeModeResult to run
Extracted == pc \in {"finally", "done"} /\ ~pending

PrimaryLog == FullOutput(primary.stdout, primary.stderr)

\* C1: CodeMode.run never raises: whatever its sub-steps do, it ends by
\* returning a CodeModeResult, never by an exception reaching the caller.
C1_RunNeverRaises == pc # "raised"

WellFormed(r) == (r.success => r.error = PyNone) /\ (~r.success => r.error # PyNone)

\* C2: every CodeModeResult built by extract_result or _execute_runner_directly,
\* and the one run returns, has error None when success is true and an error
\* that is not None when success is false.
C2_SuccessExcludesError ==
    /\ Extracted => WellFormed(result)
    /\ pc = "done" => WellFormed(returned)

\* the chunks whose marker is followed by a well-formed JSON object
ObjChunks == {cOkA, cOkB, cOk5, cFailE, cFailNull, cEmptyObj, cNested}

\* the JSON object of a chunk: what follows the marker and its whitespace
Payload(c) == SubSeq(c, SkipWS(c, 2), Len(c))

SameOutcome(r1, r2) ==
    r1.success = r2.success /\ r1.output = r2.output /\ r1.error = r2.error

\* C3: last occurrence wins: when the output holds two markers, each followed
\* by a well-formed JSON object, the result is the one the second marker alone
\* gives; with {"success": true, "result": "A"} then {"success": true,
\* "result": "B"} extraction yields success with output "B".
C3_LastMarkerWins ==
    Extracted =>
        /\ \A c1, c2 \in ObjChunks :
              (primary.stdout = c1 \o c2 /\ primary.stderr = <<>>)
                  => SameOutcome(result, ClassifyMatch(<<>>, <<Payload(c2)>>))
        /\ (primary.stdout = cOkA \o cOkB /\ primary.stderr = <<>>)
              => (result.success /\ result.output = Str("B"))

\* C4: when the primary process exceeded the configured timeout, the result
\* run returns has success false and an error message that contains the
\* configured timeout value, whatever the state of the program file.
C4_TimeoutReported ==
    (pc = "done" /\ primary.stderr = TimeoutMessage(config))
        => (~returned.success /\ Occurs(ToDecimal(config.timeout), returned.error, 0))

\* C5: at most one primary launch, at most one fallback launch, and that one
\* after the primary; the fallback path is entered exactly when the marker
\* pattern matched nowhere in the primary's stdout + stderr, so a match that
\* reports failure or does not parse ends the run with the primary launch alone.
C5_LaunchOrder ==
    /\ launches \in {<<>>, <<"primary">>, <<"primary", "fallback">>}
    /\ fallbackEntered => (launches # <<>> /\ launches[1] = "primary")
    /\ Extracted => (fallbackEntered <=> findall(PrimaryLog, 1) = <<>>)
    /\ (Extracted /\ findall(PrimaryLog, 1) # <<>>) => launches = <<"primary">>

\* a marker that does not parse ended the run without a second launch
C5_Witness ==
    /\ pc = "done"
    /\ launches = <<"primary">>
    /\ ~fallbackEntered
    /\ returned.error[1] = "Failed to parse result: "

\* C6: with the marker present in the primary output, and d the parse of the
\* payload captured after it: d parses with success true gives success with
\* output its result field and error None; d parses with success absent or
\* false gives failure with error its error field, "Unknown error" when it has
\* none; d does not parse gives failure with an error naming the parse failure.
\* stdout CODEMODE_RESULT: {"result": 5, "success": true} gives output 5.
C6_Classification ==
    (Extracted /\ findall(PrimaryLog, 1) # <<>>) =>
        LET m == findall(PrimaryLog, 1)
            d == json_loads(m[Len(m)])
        IN /\ (d.ok /\ d.obj.success = PyTrue) =>
                  /\ result.success
                  /\ result.output = (IF d.obj.result = ABSENT THEN PyNone ELSE d.obj.result)
                  /\ result.error = PyNone
           /\ (d.ok /\ d.obj.success \in {ABSENT, PyFalse}) =>
                  /\ ~result.success
                  /\ result.error = (IF d.obj.error = ABSENT THEN Str("Unknown error")
                                     ELSE d.obj.error)
           /\ ~d.ok =>
                  /\ ~result.success
                  /\ result.error = <<"Failed to parse result: ", d.err>>
           /\ (primary.stdout = cOk5 /\ primary.stderr = <<>>) =>
                  (result.success /\ result.output = Py5 /\ result.error = PyNone)

\* the end-to-end scenario: the primary printed the marker with result 5
C6_Witness ==
    /\ pc = "done"
    /\ primary.stdout = cOk5
    /\ primary.stderr = <<>>
    /\ returned.success
    /\ returned.output = Py5

\* C7: once the workspace directory was allocated, whatever path the run took,
\* at its end the directory has been deleted unless preserve_workspace is set
\* or the deletion failed; with preserve_workspace set no deletion is attempted
\* and the directory still exists.
C7_WorkspaceDeleted ==
    (pc \in {"done", "raised"} /\ dirState # "none") =>
        IF config.preserve_workspace
        THEN rmtree = "none" /\ dirState = "exists"
        ELSE dirState = "deleted" \/ rmtree = "failed"

\* C8: run returns exactly the CodeModeResult extraction produced: a cleanup
\* that fails or is skipped changes no field of it, and an exception leaves run
\* only when one was raised before the cleanup.
C8_CleanupKeepsResult ==
    /\ pc = "done" => returned = result
    /\ pc = "raised" => (pending \/ (launches = <<>> /\ rmtree = "none"))

\* the deletion failed and the run still returned its successful result
C8_Witness == pc = "done" /\ rmtree = "failed" /\ returned.success

\* C9: whenever the fallback process was launched, the returned log is the
\* primary run's log followed by the captured output of the fallback.
C9_FallbackOutputAppended ==
    (Extracted /\ launches = <<"primary", "fallback">>) =>
        /\ IsPrefix(PrimaryLog, result.execution_log)
        /\ Occurs(fallback.stdout, result.execution_log, Len(PrimaryLog))

\* C10: no reserved context parameter name (ctx, context, run_context) is in
\* the parameter list of a function generate_function_code emits, from the
\* source text or as a stub.
C10_NoReservedParameter ==
    pc = "generated" =>
        \A i \in 1..Len(emitted) :
            emitted[i].kind = "def" =>
                \A k \in 1..Len(emitted[i].params) : emitted[i].params[k][1] \notin Reserved

\* C11: the exit status of the primary process does not determine the result:
\* the run whose primary process ended with the other exit status, everything
\* else being the same, returns the same CodeModeResult.
C11_ExitStatusIgnored ==
    /\ Extracted => twinResult = result
    /\ pc = "done" => twinResult = returned

\* the primary process exited with a nonzero status and the run succeeded
C11_Witness ==
    /\ pc = "done"
    /\ launches = <<"primary">>
    /\ ~primary.success
    /\ returned.success
    /\ twinResult = returned

\* the lines of t that begin with the marker
MarkerLines(t) ==
    Cardinality({i \in 1..Len(t) : t[i] = MARK /\ (i = 1 \/ t[i - 1] = NL)})

\* the direct execution was launched and subprocess.run returned
DirectRunCompleted ==
    /\ launches = <<"primary", "fallback">>
    /\ ~(Len(result.error) = 2 /\ result.error[2] \in DirectLaunchFaults)

\* extract_result has just returned from the fallback, with agentRunner.py
\* still the unedited generated program
UneditedFallback ==
    pc = "finally" /\ ~pending /\ fallbackEntered /\ runnerFile = "generated"

\* C12 as stated: with no marker in the primary output and the program file
\* unedited, the fallback execution exits nonzero because main() is a stub,
\* and the run returns success false with an error that mentions the failure
\* to execute the program.
C12_StubExitsNonzero ==
    (UneditedFallback /\ DirectRunCompleted) =>
        /\ fallback.rc # 0
        /\ ~result.success
        /\ result.error = Str("Failed to execute agentRunner.py")

\* C12 amended: with no marker in the primary output and the program file
\* unedited, the run returns success false with an error that mentions the
\* failure to execute the program; the fallback execution exits 0 with one
\* failure marker line on stdout (the stub main() returns None), and exits
\* nonzero only when it printed no marker at all (the file did not load).
C12_UneditedProgramFails ==
    UneditedFallback =>
        /\ ~result.success
        /\ result.error[1] \in {"Failed to execute agentRunner.py",
                                 "Failed to execute runner: "}
        /\ launches = <<"primary", "fallback">>
        /\ DirectRunCompleted =>
              /\ result.error = Str("Failed to execute agentRunner.py")
              /\ IF fallback.rc = 0
                 THEN /\ MarkerLines(fallback.stdout) = 1
                      /\ Occurs(<<mErrNoRes>>, fallback.stdout, 0)
                      /\ fallback.stderr = <<>>
                 ELSE MarkerLines(fallback.stdout) + MarkerLines(fallback.stderr) = 0

\* the stub program exited with 0 and the run failed
C12_Witness ==
    /\ UneditedFallback
    /\ fallback.rc = 0
    /\ MarkerLines(fallback.stdout) = 1
    /\ result.error = Str("Failed to execute agentRunner.py")

\* C13: the generated program run as a script emits exactly one marker line:
\* on stdout with exit status 0 when main() completes, returning a value or
\* nothing; on stderr with a nonzero exit status when main() raises; never on
\* both streams, never on neither.
C13_OneMarkerLine ==
    pc = "exited" =>
        /\ MarkerLines(fallback.stdout) + MarkerLines(fallback.stderr) = 1
        /\ program.kind \in {"value", "none", "unserializable"} =>
              (MarkerLines(fallback.stdout) = 1 /\ fallback.rc = 0)
        /\ program.kind \in {"raise", "exit"} =>
              (MarkerLines(fallback.stderr) = 1 /\ fallback.rc # 0)

\* the run holds a workspace directory it has not yet cleaned up
Active(i) == runs[i].pc \notin {"start", "done", "raised"}

\* another run is pinned to the directory run i is pinned to
PinnedTogether(i) ==
    /\ runs[i].workspace_dir # NoDir
    /\ \E j \in RunIds : j # i /\ runs[j].workspace_dir = runs[i].workspace_dir

\* run i ended otherwise than it would have ended alone
Interfered(i) == runs[i].pc \in {"done", "raised"} /\ runs[i].got # runs[i].alone

\* C14: concurrent runs interfere only through a workspace directory their
\* callers pinned them to together: runs without an override hold pairwise
\* distinct directories and every run not pinned together with another ends
\* as it would alone; two runs pinned to the same directory can overwrite or
\* delete each other's program file.
C14_InterferenceOnlyWhenPinnedTogether ==
    pc = "concurrent" =>
        /\ \A i, j \in RunIds :
              (i # j /\ Active(i) /\ Active(j) /\ runs[i].workspace = runs[j].workspace)
                  => (PinnedTogether(i) /\ runs[j].workspace_dir = runs[i].workspace_dir)
        /\ \A i \in RunIds : Interfered(i) => PinnedTogether(i)

\* two runs pinned to one directory: one executed the program the other wrote
C14_Witness ==
    /\ pc = "concurrent"
    /\ \E i, j \in RunIds :
          /\ i # j
          /\ PinnedTogether(i)
          /\ runs[i].pc = "done"
          /\ runs[i].got.kind = "direct"
          /\ runs[i].got.file.owner = j

\* the first shape extract_tools recognizes on the agent, "none" when none
FirstShape ==
    IF agent._function_toolset.present /\ agent._function_toolset.has_tools
    THEN "_function_toolset"
    ELSE IF agent._function_tools.present THEN "_function_tools"
    ELSE IF agent._codemode_tools.present THEN "_codemode_tools"
    ELSE "none"

\* the callables registered in a shape, in registration order
Registered(shape) ==
    CASE shape = "_function_toolset" ->
            [k \in 1..Len(agent._function_toolset.entries) |->
                agent._function_toolset.entries[k].function]
      [] shape = "_function_tools" ->
            [k \in 1..Len(agent._function_tools.entries) |->
                agent._function_tools.entries[k].function]
      [] shape = "_codemode_tools" -> agent._codemode_tools.entries
      [] OTHER -> <<>>

\* C15: extract_tools probes the shapes in a fixed order, the function-toolset
\* mapping, then the legacy flat mapping, then the plain sequence; only the
\* first shape that matches is read, so no tool of a later shape is in the
\* catalog, and the catalog is empty when the matching shape holds no tools.
C15_FirstShapeOnly ==
    pc = "extracted" =>
        /\ \A k \in 1..Len(catalog) :
              \E n \in 1..Len(Registered(FirstShape)) :
                  catalog[k].function = Registered(FirstShape)[n]
        /\ Registered(FirstShape) = <<>> => catalog = <<>>
        /\ Len(catalog) <= Len(Registered(FirstShape))

\* the function-toolset mapping is there and empty, the later shapes hold
\* tools, and the catalog is empty
C15_Witness ==
    /\ pc = "extracted"
    /\ FirstShape = "_function_toolset"
    /\ agent._function_toolset.entries = <<>>
    /\ agent._function_tools.entries # <<>>
    /\ agent._codemode_tools.entries # <<>>
    /\ catalog = <<>>

\* C16: for every recognized shape the catalog lists the tools in registration
\* order, one descriptor per registered tool; for an agent of no recognized
\* shape extract_tools returns the empty sequence.
C16_RegistrationOrder ==
    pc = "extracted" =>
        /\ Len(catalog) = Len(Registered(FirstShape))
        /\ \A k \in 1..Len(catalog) : catalog[k].function = Registered(FirstShape)[k]
        /\ FirstShape = "none" => catalog = <<>>

\* callables registered one after the other on a client: the catalog holds
\* one descriptor for each, in that order
C16_Witness ==
    /\ pc = "extracted"
    /\ FirstShape = "_codemode_tools"
    /\ Len(catalog) = MaxTools
    /\ catalog[1].function.id = 3
    /\ catalog[2].function.id = 1

\* C17: the tool names of a catalog are pairwise different, also when the
\* same callable is registered twice in the plain-sequence shape, and when
\* two wrappers without a name wrap callables with the same __name__.
C17_NamesUnique ==
    pc = "extracted" =>
        \A k, n \in 1..Len(catalog) : k # n => catalog[k].name # catalog[n].name

\* the chunks a process can print after a marker object that hold no closing brace
BraceFree == {s \in Chunks : \A i \in 1..Len(s) : s[i] # RB}

\* C18: a valid marker object followed by text with no closing brace in it is
\* extracted as the object alone: the payload ends at the last closing brace
\* of the output, so CODEMODE_RESULT: {"success": true, "result": "A"} garbage
\* gives success with output "A".
C18_TrailingTextIgnored ==
    Extracted =>
        /\ \A c \in ObjChunks, s \in BraceFree :
              (primary.stdout = c \o s /\ primary.stderr = <<>>)
                  => /\ SameOutcome(result, ClassifyMatch(<<>>, <<Payload(c)>>))
                     /\ ~fallbackEntered
        /\ (primary.stdout = cOkA \o cText /\ primary.stderr = <<>>)
              => (result.success /\ result.output = Str("A") /\ result.error = PyNone)

\* the run whose primary printed the marker object and then " garbage"
C18_Witness ==
    /\ pc = "done"
    /\ primary.stdout = cOkA \o cText
    /\ primary.stderr = <<>>
    /\ returned.success
    /\ returned.output = Str("A")

\* C19 as stated: the output of the fallback execution is classified by the
\* rules of the primary output, over the same streams (stdout + "\n" + stderr):
\* a marker with true success gives success with the result field, JSON that
\* does not parse gives a failure whose error names the parse failure; the one
\* exception is that a parsed marker without true success gives the generic
\* error "Failed to execute agentRunner.py".
C19_SameRulesAsPrimary ==
    (Extracted /\ DirectRunCompleted) =>
        LET m == findall(FullOutput(fallback.stdout, fallback.stderr), 1) IN
        m # <<>> =>
            LET d == json_loads(m[Len(m)]) IN
            /\ (d.ok /\ d.obj.success = PyTrue) =>
                  /\ result.success
                  /\ result.output = (IF d.obj.result = ABSENT THEN PyNone ELSE d.obj.result)
            /\ ~d.ok => (~result.success /\ Occurs(<<d.err>>, result.error, 0))
            /\ (d.ok /\ d.obj.success \in {ABSENT, PyFalse}) =>
                  /\ ~result.success
                  /\ result.error = Str("Failed to execute agentRunner.py")

\* C19 amended: the primary's rules are applied to the fallback execution only
\* when it exited with status 0, and to its stdout alone: then a marker with
\* true success gives success with the result field, JSON that does not parse
\* gives a failure whose error is "Failed to execute runner: " and the parse
\* failure, and a parsed marker without true success gives the generic error
\* "Failed to execute agentRunner.py".  A nonzero exit status, or no marker on
\* stdout (a marker on stderr alone included), gives the generic error too.
C19_FallbackClassification ==
    (Extracted /\ DirectRunCompleted) =>
        LET m == findall(fallback.stdout, 1) IN
        IF fallback.rc = 0 /\ m # <<>>
        THEN LET d == json_loads(m[Len(m)]) IN
             /\ (d.ok /\ d.obj.success = PyTrue) =>
                   /\ result.success
                   /\ result.output = (IF d.obj.result = ABSENT THEN PyNone
                                       ELSE d.obj.result)
                   /\ result.error = PyNone
             /\ ~d.ok =>
                   /\ ~result.success
                   /\ result.error = <<"Failed to execute runner: ", d.err>>
             /\ (d.ok /\ d.obj.success \in {ABSENT, PyFalse}) =>
                   /\ ~result.success
                   /\ result.error = Str("Failed to execute agentRunner.py")
        ELSE /\ ~result.success
             /\ result.error = Str("Failed to execute agentRunner.py")

\* the fallback exited with 0 and printed a success marker on stderr alone:
\* the run failed
C19_Witness ==
    /\ pc = "done"
    /\ DirectRunCompleted
    /\ fallback.rc = 0
    /\ findall(fallback.stdout, 1) = <<>>
    /\ fallback.stderr = cOkB
    /\ ~returned.success
    /\ returned.error = Str("Failed to execute agentRunner.py")

\* C20: when the fallback is entered and agentRunner.py is not in the
\* workspace, the run ends with success false and the "not found" error; no
\* process is launched after the primary; the log is the primary's log.
C20_MissingFileIsFinal ==
    /\ (pc = "finally" /\ ~pending /\ fallbackEntered /\ runnerFile = "absent") =>
          /\ result = CodeModeResult(PyNone, PrimaryLog, FALSE,
                                     Str("agentRunner.py not found in workspace"))
          /\ launches = <<"primary">>
          /\ fallback = NoProcess
    /\ (pc = "done" /\ returned.error = Str("agentRunner.py not found in workspace")) =>
          /\ ~returned.success
          /\ returned.execution_log = PrimaryLog
          /\ launches = <<"primary">>
          /\ fallback = NoProcess

\* the run returned the "not found" failure after the primary launch alone
C20_Witness ==
    /\ pc = "done"
    /\ fallbackEntered
    /\ launches = <<"primary">>
    /\ returned.error = Str("agentRunner.py not found in workspace")
    /\ returned.execution_log = PrimaryLog

\* C22: on every return path of extract_result and _execute_runner_directly
\* the execution_log of the result begins with the primary's stdout + "\n" +
\* stderr, the synthesized timeout or missing-executable message included; the
\* result run returns keeps that log.
C22_LogKeepsPrimaryOutput ==
    /\ Extracted => IsPrefix(PrimaryLog, result.execution_log)
    /\ pc = "done" => IsPrefix(PrimaryLog, returned.execution_log)

\* the primary timed out and the direct execution raised: the log returned is
\* the primary's, with the timeout message in it
C22_Witness ==
    /\ pc = "done"
    /\ primary.stderr = TimeoutMessage(config)
    /\ launches = <<"primary", "fallback">>
    /\ returned.error[1] = "Failed to execute runner: "
    /\ returned.execution_log = <<NL>> \o TimeoutMessage(config)

\* C23: the fallback path gives success only when the direct execution exited
\* with status 0 and its stdout holds a marker whose JSON parses with success
\* true; a marker on its stderr, or a marker of an execution that exits with a
\* nonzero status, never gives a successful result.
C23_FallbackSuccessNeedsStdoutMarker ==
    (Extracted /\ fallbackEntered) =>
        /\ result.success =>
              /\ launches = <<"primary", "fallback">>
              /\ fallback.rc = 0
              /\ findall(fallback.stdout, 1) # <<>>
              /\ LET m == findall(fallback.stdout, 1)
                     d == json_loads(m[Len(m)])
                 IN d.ok /\ d.obj.success = PyTrue
        /\ (fallback.rc # 0 \/ findall(fallback.stdout, 1) = <<>>) => ~result.success

\* the direct execution exited with 0 and a success marker on stdout: the run
\* succeeded through the fallback
C23_Witness ==
    /\ pc = "done"
    /\ fallbackEntered
    /\ returned.success
    /\ fallback.rc = 0
    /\ fallback.stdout = cOkA
    /\ returned.output = Str("A")

\* the moves of the state machine: Created, the invocation of the primary
\* (Invoking) ended, the extraction ended (Primary-Succeeded, or
\* Primary-Ambiguous with its fallback), Done
RunMoves ==
    {<<"start", "created">>, <<"created", "executed">>, <<"executed", "finally">>,
     <<"finally", "done">>}

\* C21: every run moves through Created, Invoking, Primary-Succeeded or
\* Primary-Ambiguous, the fallback when it is entered, and always eventually
\* reaches Done, where run returns to its caller; the timeouts of the two
\* launches cut off processes that never exit.
C21_RunReachesDone ==
    /\ [][pc' # pc => <<pc, pc'>> \in RunMoves]_vars
    /\ <>(pc = "done")

====
